---- MODULE Spec2Model ----
(***************************************************************************)
(* Pairing / client-identity subsystem of the HAsync backend.              *)
(*                                                                         *)
(* The store is the SQLite database behind DatabaseService (tables         *)
(* pairing_sessions, clients, activity_log); the operations are the        *)
(* methods of PairingService.  better-sqlite3 is synchronous and           *)
(* completePairing contains no await, so every service method runs to      *)
(* completion on the single JavaScript thread: one action per method.      *)
(* Concurrent requests are therefore arbitrary sequences of these actions. *)
(***************************************************************************)
EXTENDS Integers, Sequences, FiniteSets, TLC

(***************************************************************************)
(* Bounds of the model                                                     *)
(***************************************************************************)
MaxTicks == 2
MaxSessions == 2
MaxClients == 2
MaxLog == 3

(***************************************************************************)
(* Program constants                                                       *)
(***************************************************************************)
PIN_LENGTH == 6
PIN_EXPIRY_MS == 5 * 60 * 1000
SWEEP_INTERVAL_MS == 60000
DigestHexLen == 64

\* Every comparison the code makes is between Date.now() and an earlier
\* Date.now() + PIN_EXPIRY_MS, so the clock advances in quanta of PIN_EXPIRY_MS:
\* before, exactly at and after an expiry instant are all reachable.
ClockQuantum == PIN_EXPIRY_MS
MaxTime == MaxTicks * ClockQuantum

(***************************************************************************)
(* Input domains                                                           *)
(***************************************************************************)
\* generateRandomPin: PIN_LENGTH decimal digits, leading zeros preserved.
\* The model draws the last digit from LastDigits and fixes the others to 0.
LastDigits == {0, 7}
generateRandomPin == {[i \in 1..PIN_LENGTH |-> IF i = PIN_LENGTH THEN d ELSE 0] : d \in LastDigits}

PublicKeys == {"pk_abc", "pk_xyz"}
DeviceNames == {"Kitchen Tablet"}
DeviceTypes == {"tablet"}
\* crypto.randomBytes(32): one draw per certificate
Nonces == {11}
ClientIds == 1..MaxClients

\* PairingRequest (validated request body of POST /pairing/complete)
PairingRequest == [pin : generateRandomPin, device_name : DeviceNames, device_type : DeviceTypes, public_key : PublicKeys]

\* absence of a row (null)
NoRow == [id |-> 0]

\* WebSocket objects the server can be handed by its 'connection' event
Conns == {"ws1", "ws2"}

VARIABLES now, sessions, clients, activity_log, nextSessionId, nextClientId, pairedVia, last,
          revoked, conns, registry, inflight, authFailed, awaitingPong, service

vars == <<now, sessions, clients, activity_log, nextSessionId, nextClientId, pairedVia, last, revoked, conns, registry, inflight, authFailed, awaitingPong, service>>

(***************************************************************************)
(* DatabaseService                                                         *)
(***************************************************************************)
\* clients.public_key UNIQUE: the index that serves both
\* SELECT ... WHERE public_key = ? and the uniqueness check of INSERT.
public_key_index_active(C, pk) == {c \in C : c.public_key = pk /\ c.is_active}

public_key_index(C, pk) == {c \in C : c.public_key = pk}

getClient(C, id) == IF \E c \in C : c.id = id THEN CHOOSE c \in C : c.id = id ELSE NoRow

getClientByPublicKey(C, pk) == IF public_key_index(C, pk) # {} THEN CHOOSE c \in public_key_index(C, pk) : TRUE ELSE NoRow

\* INSERT INTO clients: rejected by the UNIQUE constraint on public_key.
createClientAllowed(C, pk) == public_key_index(C, pk) = {}

createClient(C, client, id) == C \cup {[client EXCEPT !.id = id, !.is_active = TRUE]}

updateClient_is_active_noop(C, id, v) == C

\* UPDATE clients SET is_active = ? WHERE id = ?
updateClient_is_active(C, id, v) == {IF c.id = id THEN [c EXCEPT !.is_active = v] ELSE c : c \in C}

updateClient_last_seen_newCertificate(C, id, t) == {IF c.id = id THEN [c EXCEPT !.last_seen = t, !.certificate = [length |-> DigestHexLen, content |-> <<c.public_key, t, 0>>]] ELSE c : c \in C}

updateClient_last_seen_activeOnly(C, id, t) == {IF c.id = id /\ c.is_active THEN [c EXCEPT !.last_seen = t] ELSE c : c \in C}

updateClient_last_seen_andActive(C, id, t) == {IF c.id = id THEN [c EXCEPT !.last_seen = t, !.is_active = TRUE] ELSE c : c \in C}

\* UPDATE clients SET last_seen = ? WHERE id = ?
updateClient_last_seen(C, id, t) == {IF c.id = id THEN [c EXCEPT !.last_seen = t] ELSE c : c \in C}

updateClientChanged_onlyIfModified(C, id) == \E c \in C : c.id = id /\ c.is_active

\* result.changes > 0 (SQLite counts every row the WHERE clause matches)
updateClientChanged(C, id) == \E c \in C : c.id = id

\* DELETE FROM clients WHERE id = ?
deleteClientRows(C, id) == {c \in C : c.id # id}

\* activity_log.client_id REFERENCES clients(id) ON DELETE SET NULL
onDeleteSetNull(L, id) == [i \in 1..Len(L) |-> IF L[i].client_id = id THEN [L[i] EXCEPT !.client_id = 0] ELSE L[i]]

\* foreign_keys = ON: an activity row may only name an existing client (or NULL)
foreignKeyOk(C, clientId) == clientId = 0 \/ \E c \in C : c.id = clientId

logActivity_noop(L, clientId, action) == L

logActivity(L, clientId, action) == Append(L, [client_id |-> clientId, action |-> action])

createPairingSessionAllowed_noUnique(S, pin) == TRUE

\* INSERT INTO pairing_sessions: rejected by the UNIQUE constraint on pin.
createPairingSessionAllowed(S, pin) == \A s \in S : s.pin # pin

createPairingSession(S, id, pin, expiresAt, t) == S \cup {[id |-> id, pin |-> pin, expires_at |-> expiresAt, created_at |-> t, used |-> FALSE]}

getPairingSession_anyRow(S, pin) == IF \E s \in S : s.pin = pin THEN CHOOSE s \in S : s.pin = pin ELSE NoRow

\* SELECT * FROM pairing_sessions WHERE pin = ? AND used = 0
getPairingSession(S, pin) == IF \E s \in S : s.pin = pin /\ ~s.used THEN CHOOSE s \in S : s.pin = pin /\ ~s.used ELSE NoRow

markPairingSessionUsed_noop(S, pin) == S

\* UPDATE pairing_sessions SET used = 1 WHERE pin = ?
markPairingSessionUsed(S, pin) == {IF s.pin = pin THEN [s EXCEPT !.used = TRUE] ELSE s : s \in S}

cleanExpiredPairingSessions_usedOnly(S, t) == {s \in S : ~s.used}

cleanExpiredPairingSessions_lte(S, t) == {s \in S : ~(s.expires_at <= t \/ s.used)}

\* DELETE FROM pairing_sessions WHERE expires_at < ? OR used = 1
cleanExpiredPairingSessions(S, t) == {s \in S : ~(s.expires_at < t \/ s.used)}

(***************************************************************************)
(* PairingService helpers                                                  *)
(***************************************************************************)
\* sha256(publicKey || Date.now() || randomBytes(32)).digest('hex'):
\* an opaque string of 64 hex digits determined by its three inputs.
\* A string is its byte length and its content.
generateCertificate(pk, t, r) == [length |-> DigestHexLen, content |-> <<pk, t, r>>]

\* crypto.timingSafeEqual: throws RangeError when the byte lengths differ.
timingSafeEqual(a, b) == IF a.length # b.length THEN "throw" ELSE IF a = b THEN "true" ELSE "false"

verifyClientCertificate_ignoreActive(C, clientId, certificate) == LET client == getClient(C, clientId) IN IF client = NoRow THEN "false" ELSE timingSafeEqual(client.certificate, certificate)

verifyClientCertificate(C, clientId, certificate) == LET client == getClient(C, clientId) IN IF client = NoRow \/ ~client.is_active THEN "false" ELSE timingSafeEqual(client.certificate, certificate)

isExpired_gte(session, t) == t >= session.expires_at

\* completePairing: Date.now() > session.expires_at
isExpired(session, t) == t > session.expires_at

\* The pairing_sessions row a request's PIN names, used or not (observation only).
pinRow(S, pin) == IF \E s \in S : s.pin = pin THEN CHOOSE s \in S : s.pin = pin ELSE NoRow

(***************************************************************************)
(* Initial state: a freshly migrated, empty database.                      *)
(***************************************************************************)
Init ==
  /\ now = 0
  /\ sessions = {}
  /\ clients = {}
  /\ activity_log = <<>>
  /\ nextSessionId = 1
  /\ nextClientId = 1
  /\ pairedVia = {}
  /\ last = [op |-> "init"]
  /\ revoked = {}
  /\ conns = [c \in Conns |-> [readyState |-> "CONNECTING", isAlive |-> FALSE, isAuthenticated |-> FALSE, clientId |-> 0]]
  /\ registry = [id \in ClientIds |-> "none"]
  /\ inflight = {}
  /\ authFailed = {}
  /\ awaitingPong = {}
  /\ service = [stopped |-> FALSE, heartbeatInterval |-> TRUE, sweepInterval |-> TRUE]

(***************************************************************************)
(* Actions                                                                 *)
(***************************************************************************)
\* Date.now() moves forward; the response of the previous request is gone.
Tick ==
  /\ now + ClockQuantum <= MaxTime
  /\ now' = now + ClockQuantum
  /\ last' = [op |-> "tick"]
  /\ UNCHANGED <<authFailed, awaitingPong, service, revoked, conns, registry, inflight, sessions, clients, activity_log, nextSessionId, nextClientId, pairedVia>>

\* PairingService.generatePairingPin (GET /pairing/pin)
GeneratePairingPin(pin) ==
  LET expiresAt == now + PIN_EXPIRY_MS IN
  IF ~createPairingSessionAllowed(sessions, pin)
  THEN /\ last' = [op |-> "generatePairingPin", ok |-> FALSE, pin |-> pin, err |-> "SqliteError", at |-> now]
       /\ UNCHANGED <<authFailed, awaitingPong, service, revoked, conns, registry, inflight, now, sessions, clients, activity_log, nextSessionId, nextClientId, pairedVia>>
  ELSE /\ nextSessionId <= MaxSessions
       /\ sessions' = createPairingSession(sessions, nextSessionId, pin, expiresAt, now)
       /\ nextSessionId' = nextSessionId + 1
       /\ last' = [op |-> "generatePairingPin", ok |-> TRUE, pin |-> pin, err |-> "none", at |-> now,
                   session |-> [id |-> nextSessionId, pin |-> pin, expires_at |-> expiresAt, created_at |-> now]]
       /\ UNCHANGED <<authFailed, awaitingPong, service, revoked, conns, registry, inflight, now, clients, activity_log, nextClientId, pairedVia>>

RejectPairing_consumesPin(req, errClass, status, message) ==
  /\ sessions' = markPairingSessionUsed(sessions, req.pin)
  /\ last' = [op |-> "completePairing", ok |-> FALSE, pin |-> req.pin, public_key |-> req.public_key,
              row |-> pinRow(sessions, req.pin),
              keyKnown |-> (\E c \in clients : c.public_key = req.public_key),
              err |-> errClass, status |-> status, message |-> message, at |-> now]
  /\ UNCHANGED <<authFailed, awaitingPong, service, revoked, conns, registry, inflight, now, clients, activity_log, nextSessionId, nextClientId, pairedVia>>

\* a completePairing call that throws before touching the store
RejectPairing(req, errClass, status, message) ==
  /\ last' = [op |-> "completePairing", ok |-> FALSE, pin |-> req.pin, public_key |-> req.public_key,
              row |-> pinRow(sessions, req.pin),
              keyKnown |-> (\E c \in clients : c.public_key = req.public_key),
              err |-> errClass, status |-> status, message |-> message, at |-> now]
  /\ UNCHANGED <<authFailed, awaitingPong, service, revoked, conns, registry, inflight, now, sessions, clients, activity_log, nextSessionId, nextClientId, pairedVia>>

\* PairingService.completePairing (POST /pairing/complete)
CompletePairing(req, r) ==
  LET session == getPairingSession(sessions, req.pin)
      certificate == generateCertificate(req.public_key, now, r)
      client == [id |-> nextClientId, name |-> req.device_name, device_type |-> req.device_type,
                 public_key |-> req.public_key, certificate |-> certificate,
                 paired_at |-> now, last_seen |-> now, is_active |-> TRUE]
  IN
  IF session = NoRow
  THEN RejectPairing(req, "ValidationError", 400, "Invalid or expired PIN")
  ELSE IF isExpired(session, now)
  THEN RejectPairing(req, "ValidationError", 400, "PIN has expired")
  ELSE IF getClientByPublicKey(clients, req.public_key) # NoRow
  THEN RejectPairing(req, "ValidationError", 400, "Client already paired")
  ELSE IF ~createClientAllowed(clients, req.public_key)
  THEN RejectPairing(req, "SqliteError", 500, "UNIQUE constraint failed: clients.public_key")
  ELSE /\ nextClientId <= MaxClients
       /\ Len(activity_log) < MaxLog
       /\ clients' = createClient(clients, client, nextClientId)
       /\ sessions' = markPairingSessionUsed(sessions, req.pin)
       /\ activity_log' = logActivity(activity_log, nextClientId, "pairing_completed")
       /\ nextClientId' = nextClientId + 1
       /\ pairedVia' = pairedVia \cup {[session_id |-> session.id, client_id |-> nextClientId]}
       /\ last' = [op |-> "completePairing", ok |-> TRUE, pin |-> req.pin, public_key |-> req.public_key,
                   row |-> pinRow(sessions, req.pin),
                   keyKnown |-> (\E c \in clients : c.public_key = req.public_key),
                   err |-> "none", status |-> 201, message |-> "", at |-> now,
                   session |-> session, client |-> client]
       /\ UNCHANGED <<authFailed, awaitingPong, service, revoked, conns, registry, inflight, now, nextSessionId>>

\* setInterval callback of the PairingService constructor
Sweep ==
  /\ sessions' = cleanExpiredPairingSessions(sessions, now)
  /\ last' = [op |-> "sweep", cleaned |-> Cardinality(sessions) - Cardinality(cleanExpiredPairingSessions(sessions, now)), at |-> now]
  /\ UNCHANGED <<authFailed, awaitingPong, service, revoked, conns, registry, inflight, now, clients, activity_log, nextSessionId, nextClientId, pairedVia>>

\* PairingService.verifyClientCertificate
VerifyClientCertificate(clientId, certificate) ==
  /\ last' = [op |-> "verifyClientCertificate", client_id |-> clientId, certificate |-> certificate,
              result |-> verifyClientCertificate(clients, clientId, certificate)]
  /\ UNCHANGED <<authFailed, awaitingPong, service, revoked, conns, registry, inflight, now, sessions, clients, activity_log, nextSessionId, nextClientId, pairedVia>>

\* PairingService.revokeClient (POST /clients/:id/revoke)
RevokeClient(clientId) ==
  IF updateClientChanged(clients, clientId)
  THEN /\ Len(activity_log) < MaxLog
       /\ clients' = updateClient_is_active(clients, clientId, FALSE)
       /\ activity_log' = logActivity(activity_log, clientId, "client_revoked")
       /\ last' = [op |-> "revokeClient", client_id |-> clientId, result |-> TRUE]
       /\ revoked' = revoked \cup {clientId}
       /\ UNCHANGED <<authFailed, awaitingPong, service, conns, registry, inflight, now, sessions, nextSessionId, nextClientId, pairedVia>>
  ELSE /\ last' = [op |-> "revokeClient", client_id |-> clientId, result |-> FALSE]
       /\ UNCHANGED <<authFailed, awaitingPong, service, revoked, conns, registry, inflight, now, sessions, clients, activity_log, nextSessionId, nextClientId, pairedVia>>

\* PairingService.updateClientActivity
UpdateClientActivity(clientId) ==
  /\ clients' = updateClient_last_seen(clients, clientId, now)
  /\ last' = [op |-> "updateClientActivity", client_id |-> clientId]
  /\ UNCHANGED <<authFailed, awaitingPong, service, revoked, conns, registry, inflight, now, sessions, activity_log, nextSessionId, nextClientId, pairedVia>>

\* PairingService.deleteClient (DELETE /clients/:id)
DeleteClient(clientId) ==
  LET client == getClient(clients, clientId)
      remaining == deleteClientRows(clients, clientId)
      nulled == onDeleteSetNull(activity_log, clientId)
  IN
  IF client = NoRow
  THEN /\ last' = [op |-> "deleteClient", client_id |-> clientId, result |-> "false"]
       /\ UNCHANGED <<authFailed, awaitingPong, service, revoked, conns, registry, inflight, now, sessions, clients, activity_log, nextSessionId, nextClientId, pairedVia>>
  ELSE /\ clients' = remaining
       /\ IF foreignKeyOk(remaining, clientId)
          THEN /\ Len(nulled) < MaxLog
               /\ activity_log' = logActivity(nulled, clientId, "client_deleted")
               /\ last' = [op |-> "deleteClient", client_id |-> clientId, result |-> "true"]
          ELSE /\ activity_log' = nulled
               /\ last' = [op |-> "deleteClient", client_id |-> clientId, result |-> "throw"]
       /\ UNCHANGED <<authFailed, awaitingPong, service, revoked, conns, registry, inflight, now, sessions, nextSessionId, nextClientId, pairedVia>>

\* certificates a caller may present
WrongCertificate == [length |-> DigestHexLen, content |-> <<"pk_abc", 0, 0>>]
ShortCertificate == [length |-> 1, content |-> <<"x", 0, 0>>]
SuppliedCertificates == {c.certificate : c \in clients} \cup {WrongCertificate, ShortCertificate}

(***************************************************************************)
(* Client routes (routes/clients.ts)                                       *)
(***************************************************************************)
\* DatabaseService.getAllClients(activeOnly): the mapped rows, every column
getAllClients(C, activeOnly) == IF activeOnly THEN {c \in C : c.is_active} ELSE C

\* GET /clients: res.json({ success, data: clients, ... })
ListClients(activeOnly) ==
  /\ last' = [op |-> "GET /clients", status |-> 200, data |-> getAllClients(clients, activeOnly)]
  /\ UNCHANGED <<authFailed, awaitingPong, service, revoked, conns, registry, inflight, now, sessions, clients, activity_log, nextSessionId, nextClientId, pairedVia>>

\* GET /clients/:id: res.json({ success, data: client, ... }) or NotFoundError
GetClientById(clientId) ==
  LET client == getClient(clients, clientId) IN
  /\ last' = IF client = NoRow
             THEN [op |-> "GET /clients/:id", status |-> 404, data |-> {}]
             ELSE [op |-> "GET /clients/:id", status |-> 200, data |-> {client}]
  /\ UNCHANGED <<authFailed, awaitingPong, service, revoked, conns, registry, inflight, now, sessions, clients, activity_log, nextSessionId, nextClientId, pairedVia>>

(***************************************************************************)
(* WebSocketServer (websocket/server.ts)                                   *)
(***************************************************************************)
\* a falsy certificate field ('' or absent)
NoCertificate == [length |-> 0, content |-> <<>>]

\* What a client can put on the wire: text that is not JSON, or a JSON
\* message with a type, with or without a payload; an auth payload carries
\* client_id (0: absent) and certificate.
OtherFrames ==
  {[json |-> FALSE, type |-> "", payload |-> FALSE, client_id |-> 0, certificate |-> NoCertificate]} \cup
  {[json |-> TRUE, type |-> t, payload |-> TRUE, client_id |-> 0, certificate |-> NoCertificate] :
     t \in {"ping", "subscribe_entities", "call_service", "bogus"}}

AuthFrames ==
  {[json |-> TRUE, type |-> "auth", payload |-> FALSE, client_id |-> 0, certificate |-> NoCertificate]} \cup
  {[json |-> TRUE, type |-> "auth", payload |-> TRUE, client_id |-> id, certificate |-> cert] :
     id \in ClientIds \cup {0}, cert \in SuppliedCertificates \cup {NoCertificate}}

Frames == OtherFrames \cup AuthFrames

\* The JSON text null: JSON.parse succeeds, and reading message.type of the
\* result throws inside the async handleMessage, whose promise nobody awaits.
NullFrame == [json |-> TRUE, type |-> "", payload |-> FALSE, client_id |-> 0, certificate |-> NoCertificate]

\* outgoing messages: the type, and the payload.error of an error message
Msg(type) == [type |-> type, error |-> ""]
ErrorMsg(error) == [type |-> "error", error |-> error]

\* send: if (ws.readyState === WebSocket.OPEN) ws.send(...)
send(ws, message) == IF ws.readyState = "OPEN" THEN <<message>> ELSE <<>>

sendError(ws, error) == send(ws, ErrorMsg(error))

\* ws.close(): an open socket starts the closing handshake
wsClose(ws) == IF ws.readyState = "OPEN" THEN [ws EXCEPT !.readyState = "CLOSING"] ELSE ws

\* the privileged cases of handleMessage: if (!ws.isAuthenticated) { sendError; return }
privilegedAllowed_always(ws) == TRUE

privilegedAllowed(ws) == ws.isAuthenticated

registrySet_noop(R, id, c) == R

\* this.clients.set(client_id, ws)
registrySet(R, id, c) == [R EXCEPT ![id] = c]

\* this.clients.delete(ws.clientId)
registryDelete(R, id) == [R EXCEPT ![id] = "none"]

broadcastTargets_allSockets(R) == {<<id, c>> \in ClientIds \X Conns : conns[c].readyState # "CONNECTING"}

\* broadcast: this.clients.forEach(ws => { if (ws.isAuthenticated) send(ws, message) })
broadcastTargets(R) == {<<id, c>> \in ClientIds \X Conns : R[id] = c /\ conns[c].isAuthenticated}

\* the response record of a step of the socket server
WsLast(op, c, f, out, closed) ==
  [op |-> op, conn |-> c, type |-> f.type, client_id |-> f.client_id, out |-> out, closed |-> closed]

\* wss 'connection' event: handleConnection
Connect(c) ==
  /\ conns[c].readyState = "CONNECTING"
  /\ conns' = [conns EXCEPT ![c] = [readyState |-> "OPEN", isAlive |-> TRUE, isAuthenticated |-> FALSE, clientId |-> 0]]
  /\ last' = [op |-> "ws.connection", conn |-> c, type |-> "", client_id |-> 0,
              out |-> send(conns'[c], Msg("connected")), closed |-> FALSE]
  /\ UNCHANGED <<authFailed, awaitingPong, service, revoked, registry, inflight, now, sessions, clients, activity_log, nextSessionId, nextClientId, pairedVia>>

\* a handler that answers (or not) and may close, without touching anything
\* else; an auth frame that only gets an answer has failed
Answer(c, f, out, closing) ==
  /\ conns' = [conns EXCEPT ![c] = IF closing THEN wsClose(conns[c]) ELSE conns[c]]
  /\ authFailed' = IF f.type = "auth" THEN authFailed \cup {c} ELSE authFailed
  /\ last' = WsLast("ws.message", c, f, out, closing)
  /\ UNCHANGED <<awaitingPong, service, revoked, registry, inflight, now, sessions, clients, activity_log, nextSessionId, nextClientId, pairedVia>>

\* handleAuth
HandleAuth(c, f) ==
  LET ws == conns[c]
      isValid == verifyClientCertificate(clients, f.client_id, f.certificate)
      authed == [ws EXCEPT !.isAuthenticated = TRUE, !.clientId = f.client_id]
  IN
  IF ~f.payload
  THEN Answer(c, f, sendError(ws, "Authentication failed"), TRUE)
  ELSE IF f.client_id = 0 \/ f.certificate = NoCertificate
  THEN Answer(c, f, sendError(ws, "Missing credentials"), FALSE)
  ELSE IF isValid = "throw"
  THEN Answer(c, f, sendError(ws, "Authentication failed"), TRUE)
  ELSE IF isValid = "false"
  THEN Answer(c, f, sendError(ws, "Invalid credentials"), TRUE)
  ELSE /\ conns' = [conns EXCEPT ![c] = authed]
       /\ registry' = registrySet(registry, f.client_id, c)
       /\ clients' = updateClient_last_seen(clients, f.client_id, now)
       /\ last' = WsLast("ws.message", c, f, send(authed, Msg("auth_ok")), FALSE)
       /\ UNCHANGED <<authFailed, awaitingPong, service, revoked, inflight, now, sessions, activity_log, nextSessionId, nextClientId, pairedVia>>

\* handleServiceCall up to its await: haService.callService is under way
HandleServiceCall(c, f) ==
  /\ c \notin inflight
  /\ inflight' = inflight \cup {c}
  /\ last' = WsLast("ws.message", c, f, <<>>, FALSE)
  /\ UNCHANGED <<authFailed, awaitingPong, service, revoked, conns, registry, now, sessions, clients, activity_log, nextSessionId, nextClientId, pairedVia>>

\* ws 'message' event: JSON.parse and handleMessage
HandleMessage(c, f) ==
  LET ws == conns[c] IN
  /\ ws.readyState \in {"OPEN", "CLOSING"}
  /\ IF ~f.json
     THEN Answer(c, f, sendError(ws, "Invalid message format"), FALSE)
     ELSE IF f = NullFrame
     THEN Answer(c, f, <<>>, FALSE)
     ELSE IF f.type = "auth"
     THEN HandleAuth(c, f)
     ELSE IF f.type = "ping"
     THEN Answer(c, f, send(ws, Msg("pong")), FALSE)
     ELSE IF f.type = "subscribe_entities"
     THEN IF ~privilegedAllowed(ws)
          THEN Answer(c, f, sendError(ws, "Authentication required"), FALSE)
          ELSE Answer(c, f, send(ws, Msg("subscribed")), FALSE)
     ELSE IF f.type = "call_service"
     THEN IF ~privilegedAllowed(ws)
          THEN Answer(c, f, sendError(ws, "Authentication required"), FALSE)
          ELSE HandleServiceCall(c, f)
     ELSE Answer(c, f, sendError(ws, "Unknown message type"), FALSE)

\* handleServiceCall after its await: callService resolved
ServiceCallResult(c) ==
  /\ c \in inflight
  /\ inflight' = inflight \ {c}
  /\ last' = [op |-> "ws.callService", conn |-> c, type |-> "", client_id |-> 0,
              out |-> send(conns[c], Msg("service_call_result")), closed |-> FALSE]
  /\ UNCHANGED <<authFailed, awaitingPong, service, revoked, conns, registry, now, sessions, clients, activity_log, nextSessionId, nextClientId, pairedVia>>

\* ws 'close' event: the socket is closed (the peer went away, or the closing
\* handshake the server started has finished)
Close(c) ==
  /\ conns[c].readyState \in {"OPEN", "CLOSING", "TERMINATING"}
  /\ conns' = [conns EXCEPT ![c].readyState = "CLOSED"]
  /\ registry' = IF conns[c].clientId # 0 THEN registryDelete(registry, conns[c].clientId) ELSE registry
  /\ last' = [op |-> "ws.close", conn |-> c, type |-> "", client_id |-> conns[c].clientId, out |-> <<>>, closed |-> FALSE]
  /\ UNCHANGED <<authFailed, awaitingPong, service, revoked, inflight, now, sessions, clients, activity_log, nextSessionId, nextClientId, pairedVia>>

\* haService 'state_changed' event: handleStateChange and broadcast
HandleStateChange ==
  /\ last' = [op |-> "state_changed",
              to |-> {t \in broadcastTargets(registry) : send(conns[t[2]], Msg("entity_update")) # <<>>}]
  /\ UNCHANGED <<authFailed, awaitingPong, service, revoked, conns, registry, inflight, now, sessions, clients, activity_log, nextSessionId, nextClientId, pairedVia>>

\* completePairing when a statement after the INSERT INTO clients throws
\* (stmt.run raises SqliteError on an I/O failure): nothing is rolled back.
CompletePairingStoreFailure(req, r, failing) ==
  LET session == getPairingSession(sessions, req.pin)
      certificate == generateCertificate(req.public_key, now, r)
      client == [id |-> nextClientId, name |-> req.device_name, device_type |-> req.device_type,
                 public_key |-> req.public_key, certificate |-> certificate,
                 paired_at |-> now, last_seen |-> now, is_active |-> TRUE]
  IN
  /\ session # NoRow
  /\ ~isExpired(session, now)
  /\ getClientByPublicKey(clients, req.public_key) = NoRow
  /\ createClientAllowed(clients, req.public_key)
  /\ nextClientId <= MaxClients
  /\ clients' = createClient(clients, client, nextClientId)
  /\ nextClientId' = nextClientId + 1
  /\ sessions' = IF failing = "markPairingSessionUsed" THEN sessions ELSE markPairingSessionUsed(sessions, req.pin)
  /\ last' = [op |-> "completePairing", ok |-> FALSE, pin |-> req.pin, public_key |-> req.public_key,
              row |-> pinRow(sessions, req.pin),
              keyKnown |-> (\E c \in clients : c.public_key = req.public_key),
              err |-> "SqliteError", status |-> 500, message |-> failing, at |-> now]
  /\ UNCHANGED <<authFailed, awaitingPong, service, revoked, conns, registry, inflight, now, activity_log, nextSessionId, pairedVia>>

\* the statements of completePairing after the insert
StoreStatementsAfterInsert == {"markPairingSessionUsed", "logActivity"}

\* createClientsRouter(pairingService, authMiddleware): the router registers
\* its handlers without authMiddleware, so it admits every request, with a
\* valid session or without.
clientsRouterAdmits(session) == TRUE

\* GET /clients as requested by a caller with or without a valid session
ListClientsRequest(session, activeOnly) == clientsRouterAdmits(session) /\ ListClients(activeOnly)

\* DELETE /clients/:id
DeleteClientRequest(session, clientId) == clientsRouterAdmits(session) /\ DeleteClient(clientId)

\* POST /clients/:id/revoke
RevokeClientRequest(session, clientId) == clientsRouterAdmits(session) /\ RevokeClient(clientId)

\* ws.terminate(): the socket is destroyed; readyState reads CLOSING until
\* the 'close' event, and no further frame arrives
terminate(ws) == [ws EXCEPT !.readyState = "TERMINATING"]

\* wss.clients: the sockets connected and not yet closed
wssClients == {c \in Conns : conns[c].readyState \in {"OPEN", "CLOSING", "TERMINATING"}}

pongReceived_ignored(ws) == ws

\* ws.on('pong', () => { ws.isAlive = true })
pongReceived(ws) == [ws EXCEPT !.isAlive = TRUE]

\* heartbeat setInterval callback: terminate the sockets that did not answer
\* the previous ping, ping the others
HeartbeatTick ==
  LET dead == {c \in wssClients : ~conns[c].isAlive}
      pinged == wssClients \ dead
  IN
  /\ service.heartbeatInterval
  /\ conns' = [c \in Conns |-> IF c \in dead THEN terminate(conns[c])
                               ELSE IF c \in pinged THEN [conns[c] EXCEPT !.isAlive = FALSE]
                               ELSE conns[c]]
  /\ awaitingPong' = (awaitingPong \ dead) \cup {c \in pinged : conns[c].readyState = "OPEN"}
  /\ last' = [op |-> "heartbeat", terminated |-> dead, pinged |-> pinged]
  /\ UNCHANGED <<authFailed, service, revoked, registry, inflight, now, sessions, clients, activity_log, nextSessionId, nextClientId, pairedVia>>

\* ws 'pong' event
Pong(c) ==
  /\ conns[c].readyState \in {"OPEN", "CLOSING"}
  /\ conns' = [conns EXCEPT ![c] = pongReceived(conns[c])]
  /\ awaitingPong' = awaitingPong \ {c}
  /\ last' = [op |-> "ws.pong", conn |-> c, type |-> "", client_id |-> 0, out |-> <<>>, closed |-> FALSE]
  /\ UNCHANGED <<authFailed, service, revoked, registry, inflight, now, sessions, clients, activity_log, nextSessionId, nextClientId, pairedVia>>

\* App01Server.stop: wsServer.close() clears the heartbeat interval and
\* closes the socket server (which, depending on the ws release, terminates
\* its sockets or leaves them); the database and the HTTP server are closed.
\* The interval of the PairingService constructor is not cleared.
Stop(terminateSockets) ==
  /\ ~service.stopped
  /\ service' = [service EXCEPT !.stopped = TRUE, !.heartbeatInterval = FALSE]
  /\ conns' = [c \in Conns |-> IF terminateSockets /\ c \in wssClients THEN terminate(conns[c]) ELSE conns[c]]
  /\ last' = [op |-> "stop"]
  /\ UNCHANGED <<authFailed, awaitingPong, revoked, registry, inflight, now, sessions, clients, activity_log, nextSessionId, nextClientId, pairedVia>>

\* the sweep callback once the database is closed: the interval still fires
\* and cleanExpiredPairingSessions throws
SweepAfterStop ==
  /\ service.stopped /\ service.sweepInterval
  /\ last' = [op |-> "sweep", cleaned |-> 0, at |-> now, error |-> "The database connection is not open"]
  /\ UNCHANGED <<authFailed, awaitingPong, service, revoked, conns, registry, inflight, now, sessions, clients, activity_log, nextSessionId, nextClientId, pairedVia>>

Next ==
  \/ Tick
  \/ \E pin \in generateRandomPin : GeneratePairingPin(pin)
  \/ \E req \in PairingRequest, r \in Nonces : CompletePairing(req, r)
  \/ Sweep
  \/ \E id \in ClientIds, cert \in SuppliedCertificates : VerifyClientCertificate(id, cert)
  \/ \E id \in ClientIds : RevokeClient(id)
  \/ \E id \in ClientIds : UpdateClientActivity(id)
  \/ \E id \in ClientIds : DeleteClient(id)
  \/ \E activeOnly \in BOOLEAN : ListClients(activeOnly)
  \/ \E id \in ClientIds : GetClientById(id)
  \/ \E c \in Conns : Connect(c)
  \/ \E c \in Conns, f \in Frames : HandleMessage(c, f)
  \/ \E c \in Conns : ServiceCallResult(c)
  \/ \E c \in Conns : Close(c)
  \/ HandleStateChange
  \/ \E req \in PairingRequest, r \in Nonces, failing \in StoreStatementsAfterInsert : CompletePairingStoreFailure(req, r, failing)
  \/ \E session \in BOOLEAN, activeOnly \in BOOLEAN : ListClientsRequest(session, activeOnly)
  \/ \E session \in BOOLEAN, id \in ClientIds : DeleteClientRequest(session, id)
  \/ \E session \in BOOLEAN, id \in ClientIds : RevokeClientRequest(session, id)
  \/ HeartbeatTick
  \/ \E c \in Conns : Pong(c)
  \/ \E terminateSockets \in BOOLEAN : Stop(terminateSockets)
  \/ SweepAfterStop

Spec == Init /\ [][Next]_vars

\* The operations that write pairing_sessions or the identity columns of
\* clients: issuing, completing, sweeping, revoking and deleting.
PairingNext ==
  \/ Tick
  \/ \E pin \in generateRandomPin : GeneratePairingPin(pin)
  \/ \E req \in PairingRequest, r \in Nonces : CompletePairing(req, r)
  \/ Sweep
  \/ \E id \in ClientIds : RevokeClient(id)
  \/ \E id \in ClientIds : DeleteClient(id)

PairingSpec == Init /\ [][PairingNext]_vars

\* Pairing and revocation: the operations that write the activity log
\* while the rows they refer to stay in place.
PairingLogNext ==
  \/ Tick
  \/ \E pin \in generateRandomPin : GeneratePairingPin(pin)
  \/ \E req \in PairingRequest, r \in Nonces : CompletePairing(req, r)
  \/ \E id \in ClientIds : RevokeClient(id)

PairingLogSpec == Init /\ [][PairingLogNext]_vars

\* The operations that read or write the clients table, with the issuing and
\* completion that create its rows; the sweep touches pairing_sessions only.
IdentityNext ==
  \/ Tick
  \/ \E pin \in generateRandomPin : GeneratePairingPin(pin)
  \/ \E req \in PairingRequest, r \in Nonces : CompletePairing(req, r)
  \/ \E id \in ClientIds, cert \in SuppliedCertificates : VerifyClientCertificate(id, cert)
  \/ \E id \in ClientIds : RevokeClient(id)
  \/ \E id \in ClientIds : UpdateClientActivity(id)
  \/ \E id \in ClientIds : DeleteClient(id)

IdentitySpec == Init /\ [][IdentityNext]_vars

\* The writers of the clients table, without the read-only verification.
ClientWritesNext ==
  \/ Tick
  \/ \E pin \in generateRandomPin : GeneratePairingPin(pin)
  \/ \E req \in PairingRequest, r \in Nonces : CompletePairing(req, r)
  \/ \E id \in ClientIds : RevokeClient(id)
  \/ \E id \in ClientIds : UpdateClientActivity(id)
  \/ \E id \in ClientIds : DeleteClient(id)

ClientWritesSpec == Init /\ [][ClientWritesNext]_vars

\* The client routes next to the operations that create, revoke and delete
\* the rows they read.
ClientsRouteNext ==
  \/ Tick
  \/ \E pin \in generateRandomPin : GeneratePairingPin(pin)
  \/ \E req \in PairingRequest, r \in Nonces : CompletePairing(req, r)
  \/ \E id \in ClientIds : RevokeClient(id)
  \/ \E id \in ClientIds : DeleteClient(id)
  \/ \E activeOnly \in BOOLEAN : ListClients(activeOnly)
  \/ \E id \in ClientIds : GetClientById(id)

ClientsRouteSpec == Init /\ [][ClientsRouteNext]_vars

\* One device pairs: its PIN and its key.
WsPins == {pin \in generateRandomPin : pin[PIN_LENGTH] = 0}
WsPairingRequest == {req \in PairingRequest : req.pin \in WsPins /\ req.public_key = "pk_abc"}

\* The socket server next to the operations on the clients table it
\* depends on: pairing, revocation and deletion.
WsNext ==
  \/ \E pin \in WsPins : GeneratePairingPin(pin)
  \/ \E req \in WsPairingRequest, r \in Nonces : CompletePairing(req, r)
  \/ \E id \in ClientIds : RevokeClient(id)
  \/ \E id \in ClientIds : DeleteClient(id)
  \/ \E c \in Conns : Connect(c)
  \/ \E c \in Conns, f \in Frames : HandleMessage(c, f)
  \/ \E c \in Conns : ServiceCallResult(c)
  \/ \E c \in Conns : Close(c)
  \/ HandleStateChange

WsSpec == Init /\ [][WsNext]_vars

\* Every kind of frame on one socket, the JSON text null included.
MessageNext ==
  \/ \E pin \in WsPins : GeneratePairingPin(pin)
  \/ \E req \in WsPairingRequest, r \in Nonces : CompletePairing(req, r)
  \/ Connect("ws1")
  \/ \E f \in Frames \cup {NullFrame} : HandleMessage("ws1", f)
  \/ ServiceCallResult("ws1")
  \/ Close("ws1")

MessageSpec == Init /\ [][MessageNext]_vars

\* Every operation that writes the clients table except deletion, over time:
\* pairing, activity update, authentication on one socket, revocation, and
\* the sweep that lets a PIN be issued again.
ActivityNext ==
  \/ Tick
  \/ \E pin \in WsPins : GeneratePairingPin(pin)
  \/ \E req \in WsPairingRequest, r \in Nonces : CompletePairing(req, r)
  \/ Sweep
  \/ \E id \in ClientIds : RevokeClient(id)
  \/ \E id \in ClientIds : UpdateClientActivity(id)
  \/ Connect("ws1")
  \/ \E f \in AuthFrames : HandleMessage("ws1", f)
  \/ Close("ws1")

ActivitySpec == Init /\ [][ActivityNext]_vars

\* One PIN value over time: issued, completed or left to expire, swept and
\* issued again. The sweep interval keeps firing.
SweepNext ==
  \/ Tick
  \/ \E pin \in WsPins : GeneratePairingPin(pin)
  \/ \E req \in {q \in PairingRequest : q.pin \in WsPins}, r \in Nonces : CompletePairing(req, r)
  \/ Sweep

SweepFairSpec == Init /\ [][SweepNext]_vars /\ WF_vars(Sweep)

\* The socket server over time, with the pairing of one device.
WsClockNext ==
  \/ Tick
  \/ \E pin \in WsPins : GeneratePairingPin(pin)
  \/ \E req \in WsPairingRequest, r \in Nonces : CompletePairing(req, r)
  \/ \E c \in Conns : Connect(c)
  \/ \E c \in Conns, f \in Frames : HandleMessage(c, f)
  \/ \E c \in Conns : ServiceCallResult(c)
  \/ \E c \in Conns : Close(c)
  \/ HandleStateChange

WsClockSpec == Init /\ [][WsClockNext]_vars

\* One socket and two paired devices: the socket may authenticate as either.
TwoClientsNext ==
  \/ \E pin \in generateRandomPin : GeneratePairingPin(pin)
  \/ \E req \in PairingRequest, r \in Nonces : CompletePairing(req, r)
  \/ Connect("ws1")
  \/ \E f \in AuthFrames : HandleMessage("ws1", f)
  \/ Close("ws1")
  \/ HandleStateChange

TwoClientsSpec == Init /\ [][TwoClientsNext]_vars

\* completePairing with store failures after the insert
StoreFaultNext ==
  \/ Tick
  \/ \E pin \in generateRandomPin : GeneratePairingPin(pin)
  \/ \E req \in PairingRequest, r \in Nonces : CompletePairing(req, r)
  \/ \E req \in PairingRequest, r \in Nonces, failing \in StoreStatementsAfterInsert : CompletePairingStoreFailure(req, r, failing)

StoreFaultSpec == Init /\ [][StoreFaultNext]_vars

\* The client routes as requested with and without a session.
ClientsRequestNext ==
  \/ \E pin \in generateRandomPin : GeneratePairingPin(pin)
  \/ \E req \in PairingRequest, r \in Nonces : CompletePairing(req, r)
  \/ \E session \in BOOLEAN, activeOnly \in BOOLEAN : ListClientsRequest(session, activeOnly)
  \/ \E session \in BOOLEAN, id \in ClientIds : DeleteClientRequest(session, id)
  \/ \E session \in BOOLEAN, id \in ClientIds : RevokeClientRequest(session, id)

ClientsRequestSpec == Init /\ [][ClientsRequestNext]_vars

\* The heartbeat over sockets that authenticate or not.
HeartbeatNext ==
  \/ \E pin \in WsPins : GeneratePairingPin(pin)
  \/ \E req \in WsPairingRequest, r \in Nonces : CompletePairing(req, r)
  \/ \E c \in Conns : Connect(c)
  \/ \E c \in Conns, f \in AuthFrames : HandleMessage(c, f)
  \/ \E c \in Conns : Close(c)
  \/ HeartbeatTick
  \/ \E c \in Conns : Pong(c)

HeartbeatSpec == Init /\ [][HeartbeatNext]_vars

\* The heartbeat on one socket while the clock advances.
HeartbeatClockNext ==
  \/ Tick
  \/ \E pin \in WsPins : GeneratePairingPin(pin)
  \/ \E req \in WsPairingRequest, r \in Nonces : CompletePairing(req, r)
  \/ Connect("ws1")
  \/ \E f \in AuthFrames : HandleMessage("ws1", f)
  \/ Close("ws1")
  \/ HeartbeatTick
  \/ Pong("ws1")

HeartbeatClockSpec == Init /\ [][HeartbeatClockNext]_vars

\* Start to stop: requests and connections are served while the service
\* runs; the timers fire as long as their intervals are set.
LifecycleNext ==
  \/ Tick
  \/ ~service.stopped /\ \E pin \in WsPins : GeneratePairingPin(pin)
  \/ ~service.stopped /\ \E req \in WsPairingRequest, r \in Nonces : CompletePairing(req, r)
  \/ ~service.stopped /\ service.sweepInterval /\ Sweep
  \/ ~service.stopped /\ \E c \in Conns : Connect(c)
  \/ \E c \in Conns : Close(c)
  \/ HeartbeatTick
  \/ \E c \in Conns : Pong(c)
  \/ \E terminateSockets \in BOOLEAN : Stop(terminateSockets)
  \/ SweepAfterStop

LifecycleSpec == Init /\ [][LifecycleNext]_vars

(***************************************************************************)
(* Properties                                                              *)
(***************************************************************************)
IsCompletePairing == last.op = "completePairing"
Live(s, t) == ~s.used /\ t <= s.expires_at
\* a completePairing step that threw
FailedPairingStep == last' # last /\ last'.op = "completePairing" /\ ~last'.ok

\* C1: for every pairing session at most one completePairing call returns a
\* Client, whatever the order in which the calls for its PIN run; a call
\* that fails creates no Client.
C1_AtMostOneClientPerSession ==
  /\ [](\A a \in pairedVia, b \in pairedVia : a.session_id = b.session_id => a = b)
  /\ [][FailedPairingStep => clients' = clients]_vars

\* C1 witness: a second call for a PIN failed after a first call consumed it.
C1_Witness ==
  /\ IsCompletePairing /\ ~last.ok
  /\ last.row # NoRow /\ last.row.used
  /\ \E p \in pairedVia : p.session_id = last.row.id

\* C2 (as claimed): a completePairing against a session that an earlier call
\* consumed fails with AuthenticationError (401).
C2_SecondCallAuthenticationError ==
  (IsCompletePairing /\ last.row # NoRow /\ last.row.used)
    => (~last.ok /\ last.err = "AuthenticationError" /\ last.status = 401)

\* C3: no two Client rows, active or inactive, carry the same public_key.
C3_PublicKeyUnique ==
  \A a \in clients, b \in clients : a.public_key = b.public_key => a = b

\* C3 witness: a pairing with the key of a revoked Client was turned down
\* while that Client is still stored.
C3_Witness ==
  /\ IsCompletePairing /\ ~last.ok /\ last.keyKnown
  /\ last.row # NoRow /\ Live(last.row, last.at)
  /\ \E c \in clients : c.public_key = last.public_key /\ ~c.is_active

\* C4 (as claimed): a valid PIN with an already bound public key fails with
\* ConflictError (409) and creates no Client.
C4_ConflictError ==
  (IsCompletePairing /\ last.row # NoRow /\ Live(last.row, last.at) /\ last.keyKnown)
    => (~last.ok /\ last.err = "ConflictError" /\ last.status = 409)

\* C5: a session with now > expires_at is never accepted, swept or not; an
\* unused session is accepted up to and including now = expires_at; a
\* rejected call creates no Client.
C5_ExpiredNeverAccepted ==
  /\ [](IsCompletePairing =>
         /\ (last.row = NoRow => ~last.ok)
         /\ (last.row # NoRow /\ last.at > last.row.expires_at => ~last.ok)
         /\ (last.row # NoRow /\ ~last.row.used /\ last.at <= last.row.expires_at /\ ~last.keyKnown => last.ok))
  /\ [][(FailedPairingStep /\ (last'.row = NoRow \/ last'.at > last'.row.expires_at))
           => (clients' = clients /\ sessions' = sessions)]_vars

\* C5 witness: a call on an expired, not yet swept session was rejected.
C5_Witness ==
  /\ IsCompletePairing /\ ~last.ok
  /\ last.row # NoRow /\ ~last.row.used /\ last.at > last.row.expires_at

\* a completePairing outcome that was refused because of the PIN
PinFailure(l) ==
  /\ l.op = "completePairing" /\ ~l.ok
  /\ (l.row = NoRow \/ l.row.used \/ l.at > l.row.expires_at)

\* C6 (as claimed): expired, used and never-issued PINs are refused with the
\* same error class and the identical message.
C6_IndistinguishablePinFailures ==
  [][(PinFailure(last) /\ PinFailure(last')) => (last'.err = last.err /\ last'.message = last.message)]_vars

\* C7: at most one live (unused, unexpired) session per PIN value.
C7_OneLiveSessionPerPin ==
  \A a \in sessions, b \in sessions : (a.pin = b.pin /\ Live(a, now) /\ Live(b, now)) => a = b

\* C7 witness: generatePin drew the PIN of a live session and stored nothing.
C7_Witness ==
  /\ last.op = "generatePairingPin" /\ ~last.ok
  /\ \E s \in sessions : s.pin = last.pin /\ Live(s, now)

\* C8 (as claimed): generatePin succeeds in any store state, persisting an
\* unused session that expires PIN_EXPIRY_MS from now and is live on return.
C8_GeneratePinAlwaysSucceeds ==
  last.op = "generatePairingPin" =>
    /\ last.ok
    /\ \E s \in sessions : /\ s.pin = last.pin /\ s.id = last.session.id /\ ~s.used
                           /\ s.expires_at = last.at + PIN_EXPIRY_MS
                           /\ s.expires_at = last.session.expires_at

\* C9: a sweep removes every session that is used or has expires_at < now and
\* keeps every unused session with expires_at >= now, so no session that
\* completePairing would still accept is deleted.
C9_SweepExact ==
  [][Sweep =>
       /\ \A s \in sessions : (s.used \/ s.expires_at < now) => s \notin sessions'
       /\ \A s \in sessions : (~s.used /\ s.expires_at >= now) => s \in sessions'
       /\ \A s \in sessions : (~s.used /\ ~isExpired(s, now)) => getPairingSession(sessions', s.pin) = s
       /\ sessions' \subseteq sessions]_vars

\* C9 witness: a sweep deleted sessions and kept one that expires right now.
C9_Witness ==
  /\ last.op = "sweep" /\ last.cleaned > 0
  /\ \E s \in sessions : ~s.used /\ s.expires_at = now /\ last.at = now

\* C10: verifyCertificate returns true exactly when the Client exists, is
\* active and stores the supplied certificate; false when missing or inactive.
C10_VerifyCertificate ==
  last.op = "verifyClientCertificate" =>
    /\ (last.result = "true") <=>
         (\E c \in clients : c.id = last.client_id /\ c.is_active /\ c.certificate = last.certificate)
    /\ ((\A c \in clients : c.id # last.client_id) => last.result = "false")
    /\ ((\E c \in clients : c.id = last.client_id /\ ~c.is_active) => last.result = "false")

\* C10 witness: the right certificate of a revoked Client was refused.
C10_Witness ==
  /\ last.op = "verifyClientCertificate" /\ last.result = "false"
  /\ \E c \in clients : c.id = last.client_id /\ ~c.is_active /\ c.certificate = last.certificate

\* C11 (as claimed): for an active Client, a supplied certificate of another
\* length than the stored one is answered false, not with an exception.
C11_UnequalLengthReturnsFalse ==
  (/\ last.op = "verifyClientCertificate"
   /\ \E c \in clients : c.id = last.client_id /\ c.is_active /\ c.certificate.length # last.certificate.length)
    => last.result = "false"

\* C14: revoking a Client that is already inactive reports success and leaves
\* every Client as it was; revoking leaves the Client inactive and the others
\* untouched, so revoke;revoke ends in the Client state of a single revoke.
C14_RevokeIdempotent ==
  [][\A id \in ClientIds :
       (RevokeClient(id) /\ (\E c \in clients : c.id = id)) =>
          /\ last'.result = TRUE
          /\ \E c \in clients' : c.id = id /\ ~c.is_active
          /\ \A c \in clients : c.id # id => c \in clients'
          /\ (\E c \in clients : c.id = id /\ ~c.is_active) => clients' = clients]_vars

\* C14 witness: the same Client was revoked twice and the second revoke
\* reported success.
C14_Witness ==
  /\ last.op = "revokeClient" /\ last.result = TRUE
  /\ \E c \in clients : c.id = last.client_id /\ ~c.is_active
  /\ \E i \in 1..Len(activity_log), j \in 1..Len(activity_log) :
       /\ i < j
       /\ activity_log[i] = [client_id |-> last.client_id, action |-> "client_revoked"]
       /\ activity_log[j] = [client_id |-> last.client_id, action |-> "client_revoked"]

\* C12: once revoke(c) has succeeded, verifyCertificate(c, cert) is false
\* for every certificate, the stored one included, after any later
\* operations; and no connection becomes authenticated as c afterwards.
C12_RevokedNeverVerifies ==
  /\ [](\A id \in revoked, cert \in SuppliedCertificates \cup {NoCertificate} :
          verifyClientCertificate(clients, id, cert) = "false")
  /\ [][\A c \in Conns :
          (conns'[c].isAuthenticated /\ conns'[c].clientId \in revoked) =>
             (conns[c].isAuthenticated /\ conns[c].clientId = conns'[c].clientId)]_vars

\* C12 witness: an auth frame naming a revoked Client whose row still exists
\* was answered 'Invalid credentials' and the socket was closed.
C12_Witness ==
  /\ last.op = "ws.message" /\ last.type = "auth"
  /\ last.client_id \in revoked
  /\ \E c \in clients : c.id = last.client_id
  /\ last.out = <<ErrorMsg("Invalid credentials")>> /\ last.closed

\* C13: is_active only goes from true to false: no step turns an inactive
\* Client active again.
C13_NeverReactivated ==
  [][\A c \in clients : ~c.is_active => \A d \in clients' : d.id = c.id => ~d.is_active]_vars

\* C13 witness: a pairing attempt with the key of a revoked Client was
\* turned down and the Client is still inactive.
C13_Witness ==
  /\ last.op = "completePairing" /\ ~last.ok /\ last.message = "Client already paired"
  /\ \E c \in clients : c.public_key = last.public_key /\ ~c.is_active /\ c.id \in revoked

\* C15 (as claimed): the responses of the client listing and of the client
\* lookup carry no certificate.
C15_CertificateOnlyInPairingResponse ==
  last.op \in {"GET /clients", "GET /clients/:id"} => \A d \in last.data : "certificate" \notin DOMAIN d

\* C16: a subscribe_entities or call_service frame on a connection that is
\* not authenticated has no effect and changes neither the connection nor
\* the registry; on an open connection it is answered by the error
\* 'Authentication required' and the connection stays open.
C16_PrivilegedNeedsAuthentication ==
  [][(/\ last'.op = "ws.message" /\ last'.type \in {"subscribe_entities", "call_service"}
      /\ ~conns[last'.conn].isAuthenticated) =>
          /\ conns' = conns /\ registry' = registry /\ inflight' = inflight /\ clients' = clients
          /\ ~last'.closed
          /\ conns[last'.conn].readyState = "OPEN" => last'.out = <<ErrorMsg("Authentication required")>>]_vars

\* C16 witness: call_service on an open unauthenticated connection was
\* answered 'Authentication required'.
C16_Witness ==
  /\ last.op = "ws.message" /\ last.type = "call_service"
  /\ ~conns[last.conn].isAuthenticated /\ conns[last.conn].readyState = "OPEN"
  /\ last.out = <<ErrorMsg("Authentication required")>>

\* C17 (as claimed): no two open authenticated connections carry the same
\* client_id.
C17_OneConnectionPerClient ==
  \A c1 \in Conns, c2 \in Conns :
     (/\ conns[c1].readyState = "OPEN" /\ conns[c1].isAuthenticated
      /\ conns[c2].readyState = "OPEN" /\ conns[c2].isAuthenticated
      /\ conns[c1].clientId = conns[c2].clientId) => c1 = c2

\* C18 (as claimed): after an auth frame that was not answered auth_ok the
\* connection is no longer open.
C18_FailedAuthCloses ==
  (last.op = "ws.message" /\ last.type = "auth" /\ last.out # <<Msg("auth_ok")>>)
    => conns[last.conn].readyState # "OPEN"

\* C19: entity_update goes only to connections that are authenticated and
\* open when the state change is emitted.
C19_BroadcastOnlyToAuthenticatedOpen ==
  last.op = "state_changed" =>
    \A t \in last.to : conns[t[2]].isAuthenticated /\ conns[t[2]].readyState = "OPEN"

\* C19 witness: a state change was delivered to one connection while the
\* other one was open and not authenticated.
C19_Witness ==
  /\ last.op = "state_changed" /\ last.to # {}
  /\ \E c \in Conns : conns[c].readyState = "OPEN" /\ ~conns[c].isAuthenticated /\ \A t \in last.to : t[2] # c

\* C20 (as claimed): a privileged frame on an open connection whose Client
\* has been revoked is answered by an error.
C20_RevokedConnectionRejected ==
  (/\ last.op = "ws.message" /\ last.type \in {"subscribe_entities", "call_service"}
   /\ conns[last.conn].readyState = "OPEN"
   /\ conns[last.conn].clientId \in revoked)
    => (last.out # <<>> /\ last.out[1].type = "error")

\* C21: at a heartbeat tick every open connection that was pinged at the
\* previous tick and sent no pong since is terminated, and every other open
\* connection stays open; nothing but the heartbeat terminates a connection,
\* and it never terminates an open one that answered its ping.
C21_HeartbeatTerminatesSilent ==
  [][/\ HeartbeatTick =>
          \A c \in Conns : conns[c].readyState = "OPEN" =>
             /\ c \in awaitingPong => conns'[c].readyState = "TERMINATING"
             /\ c \notin awaitingPong => conns'[c].readyState = "OPEN"
     /\ \A c \in Conns :
          (conns'[c].readyState = "TERMINATING" /\ conns[c].readyState # "TERMINATING") =>
             (HeartbeatTick /\ (conns[c].readyState = "OPEN" => c \in awaitingPong))]_vars

\* C21 witness: one tick terminated a silent connection and pinged again an
\* authenticated one that is still open.
C21_Witness ==
  /\ last.op = "heartbeat"
  /\ \E c \in last.terminated : conns[c].readyState = "TERMINATING"
  /\ \E d \in last.pinged : conns[d].readyState = "OPEN" /\ conns[d].isAuthenticated

\* C22 (as claimed): after a completePairing call that failed, no Client
\* created by that call is in the store.
C22_FailureLeavesNoClient ==
  (last.op = "completePairing" /\ ~last.ok /\ ~last.keyKnown)
    => ~\E c \in clients : c.public_key = last.public_key

\* C23 (as claimed): once the service is stopped, no sweep and no heartbeat
\* tick runs.
C23_TimersStopWithService ==
  service.stopped => last.op \notin {"sweep", "heartbeat"}

\* C24 (as claimed): deleting an existing Client returns true and appends a
\* "client_deleted" entry; deleting an unknown id reports false.
C24_DeleteSucceeds ==
  last.op = "deleteClient" =>
    \/ last.result = "false"
    \/ /\ last.result = "true"
       /\ ~\E c \in clients : c.id = last.client_id
       /\ Len(activity_log) > 0 /\ activity_log[Len(activity_log)].action = "client_deleted"

\* C25 (as claimed): a revoke or delete request without a valid session
\* leaves the clients table as it was, and a list request without a valid
\* session gets no Client.
C25_ClientRoutesNeedSession ==
  [][/\ \A id \in ClientIds :
          (RevokeClientRequest(FALSE, id) \/ DeleteClientRequest(FALSE, id)) => clients' = clients
     /\ \A activeOnly \in BOOLEAN :
          ListClientsRequest(FALSE, activeOnly) => last'.data = {}]_vars

\* C27: whenever completePairing returns a Client, exactly one session row
\* carried the PIN, that row was unused before the update and is used after
\* it.
C27_MarkUsedExactlyOneUnusedRow ==
  (last.op = "completePairing" /\ last.ok) =>
     /\ last.row # NoRow /\ ~last.row.used
     /\ {s \in sessions : s.pin = last.pin} = {[last.row EXCEPT !.used = TRUE]}

\* C27 witness: a Client was returned for a session issued after an earlier
\* session had already been completed.
C27_Witness ==
  /\ last.op = "completePairing" /\ last.ok
  /\ last.row.id > 1
  /\ \E p \in pairedVia : p.session_id < last.row.id

\* C28: as long as the sweep keeps firing, every pairing session that is
\* used or expired is eventually deleted; and once a session is deleted its
\* PIN is free to be issued again.
C28_SweptEventually ==
  /\ \A id \in 1..MaxSessions :
       (\E s \in sessions : s.id = id /\ (s.used \/ s.expires_at < now))
          ~> ~(\E s \in sessions : s.id = id)
  /\ [][\A s \in sessions :
          (~\E t \in sessions' : t.id = s.id) => createPairingSessionAllowed(sessions', s.pin)]_vars

\* C28 witness: the PIN of an earlier, swept session was issued again.
C28_Witness ==
  /\ last.op = "generatePairingPin" /\ last.ok
  /\ last.session.id > 1 /\ last.pin \in WsPins
  /\ sessions # {} /\ \A s \in sessions : s.id = last.session.id /\ s.pin = last.pin

\* C29 (as claimed): on a connection on which an auth frame has failed, no
\* later step authenticates the connection or registers it.
C29_NoRetryAfterFailedAuth ==
  [][\A c \in authFailed :
       /\ conns'[c].isAuthenticated => conns[c].isAuthenticated
       /\ \A id \in ClientIds : registry'[id] = c => registry[id] = c]_vars

\* the step sends a frame on connection c
SendsTo(c) ==
  \/ last'.op \in {"ws.connection", "ws.message", "ws.callService"} /\ last'.conn = c /\ last'.out # <<>>
  \/ last'.op = "state_changed" /\ \E t \in last'.to : t[2] = c

\* the step handles an auth frame on connection c, naming Client id, for
\* which verifyClientCertificate returns true
VerifiedAuthStep(c, id) ==
  \E f \in AuthFrames :
     /\ f.client_id = id
     /\ verifyClientCertificate(clients, f.client_id, f.certificate) = "true"
     /\ HandleMessage(c, f)

\* C30: a connection becomes authenticated, and auth_ok is sent, only in a
\* step that handles an auth frame whose certificate verified; when auth_ok
\* is sent the connection is registered under its client_id and the
\* Client's last_seen is the current time; on a connection nothing is sent
\* before "connected".
C30_AuthOkOrder ==
  [][/\ \A c \in Conns :
          (conns'[c].isAuthenticated /\ ~conns[c].isAuthenticated) => VerifiedAuthStep(c, conns'[c].clientId)
     /\ (last'.op = "ws.message" /\ last'.out # <<>> /\ last'.out[1] = Msg("auth_ok")) =>
          /\ VerifiedAuthStep(last'.conn, last'.client_id)
          /\ registry'[last'.client_id] = last'.conn
          /\ conns'[last'.conn].isAuthenticated /\ conns'[last'.conn].clientId = last'.client_id
          /\ \E d \in clients' : d.id = last'.client_id /\ d.last_seen = now'
     /\ \A c \in Conns :
          (conns[c].readyState = "CONNECTING" /\ (SendsTo(c) \/ conns'[c].readyState # "CONNECTING")) =>
             (last'.op = "ws.connection" /\ last'.conn = c /\ last'.out = <<Msg("connected")>>)]_vars

\* C30 witness: auth_ok was sent on a connection after time had passed since
\* the pairing; the connection is registered and last_seen is now.
C30_Witness ==
  /\ last.op = "ws.message" /\ last.out = <<Msg("auth_ok")>>
  /\ registry[last.client_id] = last.conn
  /\ \E d \in clients : d.id = last.client_id /\ d.paired_at < now /\ d.last_seen = now

\* C31 (as claimed): the registry holds no entry that refers to a closed
\* connection.
C31_RegistryHasNoClosedConnection ==
  \A c \in Conns : conns[c].readyState = "CLOSED" => \A id \in ClientIds : registry[id] # c

\* C37 (as claimed): the close of a connection leaves the registration of
\* every other connection in place.
C37_CloseRemovesOwnRegistrationOnly ==
  [][\A a \in Conns, b \in Conns, k \in ClientIds :
       (Close(a) /\ a # b /\ registry[k] = b) => registry'[k] = b]_vars

\* C38 (as claimed): a connection authenticated as k stays authenticated as
\* k until it is closed, and every registry entry k -> connection names a
\* connection whose clientId is k.
C38_AuthenticationBoundToOneIdentity ==
  /\ [](\A k \in ClientIds : registry[k] # "none" => conns[registry[k]].clientId = k)
  /\ [][\A c \in Conns :
          (conns[c].isAuthenticated /\ conns'[c].readyState # "CLOSED") =>
             (conns'[c].isAuthenticated /\ conns'[c].clientId = conns[c].clientId)]_vars

\* C32 (as claimed): after a pong from an authenticated connection the
\* Client's last_seen is the current time.
C32_PongUpdatesLastSeen ==
  (last.op = "ws.pong" /\ conns[last.conn].isAuthenticated) =>
     \A c \in clients : c.id = conns[last.conn].clientId => c.last_seen = now

\* C33: updateClientActivity(client_id) sets last_seen of that Client to the
\* current time and changes nothing else: every other field of that Client,
\* every other Client, the sessions and the activity log stay as they were,
\* whether the Client is active or revoked.
C33_UpdateActivityChangesOnlyLastSeen ==
  [][\A id \in ClientIds : UpdateClientActivity(id) =>
       /\ clients' = {IF c.id = id THEN [c EXCEPT !.last_seen = now] ELSE c : c \in clients}
       /\ \A c \in clients : c.id = id => \E d \in clients' : d.id = id /\ d.last_seen = now /\ d.is_active = c.is_active
       /\ sessions' = sessions /\ activity_log' = activity_log]_vars

\* A revoked Client whose last_seen was moved past its pairing time, next to
\* another Client that was left alone.
C33_Witness ==
  /\ last.op = "updateClientActivity"
  /\ \E c \in clients, d \in clients :
       /\ c.id = last.client_id /\ ~c.is_active /\ c.last_seen = now /\ c.last_seen > c.paired_at
       /\ d.id # c.id /\ d.last_seen < now

\* C34: a successful completePairing appends exactly one "pairing_completed"
\* entry that carries the new Client's id, together with the Client insert
\* and the mark-used update; a failing completePairing appends nothing; a
\* successful revoke appends one "client_revoked" entry for that Client.
C34_PairingAndRevokeAreLogged ==
  [][/\ (last' # last /\ last'.op = "completePairing" /\ last'.ok) =>
          /\ activity_log' = Append(activity_log, [client_id |-> last'.client.id, action |-> "pairing_completed"])
          /\ \E c \in clients' : c.id = last'.client.id
          /\ \A c \in clients : c.id # last'.client.id
          /\ \E s \in sessions' : s.id = last'.session.id /\ s.used
     /\ FailedPairingStep => activity_log' = activity_log
     /\ (last'.op = "revokeClient" /\ last'.result) =>
          activity_log' = Append(activity_log, [client_id |-> last'.client_id, action |-> "client_revoked"])]_vars

\* A second pairing has just been logged behind an earlier entry.
C34_Witness ==
  /\ last.op = "completePairing" /\ last.ok
  /\ Len(activity_log) >= 2
  /\ activity_log[Len(activity_log)] = [client_id |-> last.client.id, action |-> "pairing_completed"]
  /\ Cardinality({i \in 1..Len(activity_log) : activity_log[i] = [client_id |-> last.client.id, action |-> "pairing_completed"]}) = 1

\* C35 (as claimed): a pairing session row is mutated exactly once: its pin
\* and expires_at never change, used never goes back to false, used goes
\* from false to true only in a successful completePairing that looked up
\* this row, and the lookup by PIN never returns a used row.
C35_SessionMutatedOnce ==
  /\ [][\A s \in sessions : \A t \in sessions' : t.id = s.id =>
          /\ t.pin = s.pin /\ t.expires_at = s.expires_at
          /\ s.used => t.used
          /\ (~s.used /\ t.used) =>
                (last'.op = "completePairing" /\ last'.ok /\ last'.session.id = s.id)]_vars
  /\ [](\A pin \in generateRandomPin :
          getPairingSession(sessions, pin) # NoRow => ~getPairingSession(sessions, pin).used)

\* C36: a completePairing rejected at one of its checks (unknown or used
\* PIN, expired PIN, public key already paired) leaves the sessions, the
\* Clients and the activity log unchanged; after an already-paired rejection
\* the lookup still returns the PIN's session.
C36_RejectionChangesNothing ==
  [][(FailedPairingStep /\ last'.message \in {"Invalid or expired PIN", "PIN has expired", "Client already paired"}) =>
       /\ sessions' = sessions /\ clients' = clients /\ activity_log' = activity_log
       /\ last'.message = "Client already paired" =>
            (getPairingSession(sessions, last'.pin) # NoRow
               /\ getPairingSession(sessions', last'.pin) = getPairingSession(sessions, last'.pin))]_vars

\* A device whose key is already paired was turned away and the PIN it
\* presented is still unused and not expired.
C36_Witness ==
  /\ last.op = "completePairing" /\ ~last.ok /\ last.message = "Client already paired"
  /\ \E c \in clients : c.public_key = last.public_key
  /\ \E s \in sessions : s.pin = last.pin /\ Live(s, now)
  /\ activity_log # <<>>

\* C39: the public_key and the certificate of a Client never change after
\* its creation, and a certificate that verifies for an active Client still
\* verifies after every step that neither revokes nor deletes that Client.
C39_CredentialsFixedAtCreation ==
  [][\A c \in clients : \A d \in clients' : d.id = c.id =>
       /\ d.public_key = c.public_key /\ d.certificate = c.certificate
       /\ \A cert \in SuppliedCertificates :
            (verifyClientCertificate(clients, c.id, cert) = "true" /\ d.is_active) =>
               verifyClientCertificate(clients', c.id, cert) = "true"]_vars

\* The certificate of a Client still verifies after its last_seen was
\* written past its pairing time, while another Client is revoked.
C39_Witness ==
  /\ last.op = "updateClientActivity"
  /\ \E c \in clients, d \in clients :
       /\ c.id = last.client_id /\ c.last_seen > c.paired_at
       /\ verifyClientCertificate(clients, c.id, c.certificate) = "true"
       /\ d.id # c.id /\ ~d.is_active

\* C40 (as claimed): a frame that is not JSON or whose type is not one of
\* the known types changes neither the connection nor the registry and is
\* answered with an error frame, and a ping frame is answered with pong,
\* on every open connection.
C40_UnknownFrameAnsweredWithError ==
  [][last'.op = "ws.message" =>
       /\ last'.type \notin {"auth", "ping", "subscribe_entities", "call_service"} =>
            /\ conns' = conns /\ registry' = registry
            /\ conns[last'.conn].readyState = "OPEN" =>
                 (last'.out # <<>> /\ last'.out[1].type = "error")
       /\ (last'.type = "ping" /\ conns[last'.conn].readyState = "OPEN") =>
            (last'.out = <<Msg("pong")>> /\ conns' = conns /\ registry' = registry)]_vars

====
